---- MODULE Spec2Model ----
(***************************************************************************)
(* Catch-A-Frog: the game engine of src/src/game_logic.py (class           *)
(* GameLogic) as a state machine.  A cell is a pair <<r, c>>.  The random  *)
(* choices of spawn_initial_obstacles are nondeterministic choices.        *)
(***************************************************************************)
EXTENDS Integers, Sequences, FiniteSets, TLC

VARIABLES rows, cols, min_obstacles, max_obstacles,
          frog, obstacles, status,
          op, added, path, moved_to, calls,
          req

vars == <<rows, cols, min_obstacles, max_obstacles, frog, obstacles, status,
          op, added, path, moved_to, calls, req>>

config == <<rows, cols, min_obstacles, max_obstacles>>

(* ---- bounds of the model ---------------------------------------------- *)
MaxRows == 3
MaxCols == 4
MaxCells == 12
MaxSpawn == 1
MaxLoseRows == 11
MaxLoseCols == 11
MaxPathRows == 5
MaxPathCols == 5
MaxPathObstacles == 2
MaxPlaySpawn == 6
MaxRequests == 1

(* ---- geometry ---------------------------------------------------------- *)
Cells == (0 .. rows - 1) \X (0 .. cols - 1)

Centre == <<rows \div 2, cols \div 2>>

in_bounds_inclusive(cell) ==
    /\ 0 <= cell[1] /\ cell[1] <= rows
    /\ 0 <= cell[2] /\ cell[2] <= cols

in_bounds(cell) ==
    /\ 0 <= cell[1] /\ cell[1] < rows
    /\ 0 <= cell[2] /\ cell[2] < cols

EvenOffsets == << <<-1, -1>>, <<-1, 0>>, <<0, -1>>, <<0, 1>>, <<1, -1>>, <<1, 0>> >>

OddOffsets == << <<-1, 0>>, <<-1, 1>>, <<0, -1>>, <<0, 1>>, <<1, 0>>, <<1, 1>> >>

neighbors_ignoring_parity(cell) ==
    LET offsets == EvenOffsets
        nbs == [i \in 1 .. Len(offsets) |->
                   <<cell[1] + offsets[i][1], cell[2] + offsets[i][2]>>]
    IN  SelectSeq(nbs, in_bounds)

neighbors(cell) ==
    LET offsets == IF cell[1] % 2 = 0 THEN EvenOffsets ELSE OddOffsets
        nbs == [i \in 1 .. Len(offsets) |->
                   <<cell[1] + offsets[i][1], cell[2] + offsets[i][2]>>]
    IN  SelectSeq(nbs, in_bounds)

is_edge(cell) ==
    \/ cell[1] = 0
    \/ cell[1] = rows - 1
    \/ cell[2] = 0
    \/ cell[2] = cols - 1

SeqRange(s) == {s[i] : i \in 1 .. Len(s)}

(* ---- spawn_initial_obstacles ------------------------------------------ *)
(* The while loop, run on the set of all obstacle sets it can hold after   *)
(* `attempts` iterations: `running` are the sets for which the loop        *)
(* condition still holds, `done` those on which it has exited.  An         *)
(* iteration that leaves both sets as they are is repeated unchanged up to *)
(* the attempt limit, so the unrolling stops there.                        *)
RECURSIVE SpawnLoop(_, _, _, _, _)
SpawnLoop(running, done, attempts, n, frg) ==
    IF running = {} \/ attempts >= n * 10 + 100
    THEN done \cup running
    ELSE LET after == {IF cell = frg THEN o ELSE o \cup {cell} :
                          o \in running, cell \in Cells}
             running2 == {o \in after : Cardinality(o) < n}
             done2 == done \cup (after \ running2)
         IN  IF running2 = running /\ done2 = done
             THEN done \cup running
             ELSE SpawnLoop(running2, done2, attempts + 1, n, frg)

spawn_initial_obstacles(n, frg) ==
    IF 0 < n THEN SpawnLoop({{}}, {}, 0, n, frg) ELSE {{}}

(* ---- shortest_path_to_edge -------------------------------------------- *)
RECURSIVE ReconstructPath(_, _, _)
ReconstructPath(p, parent, start) ==
    IF p[Len(p)] = start THEN p
    ELSE ReconstructPath(Append(p, parent[p[Len(p)]]), parent, start)

Reverse(s) == [i \in 1 .. Len(s) |-> s[Len(s) + 1 - i]]

(* The loop state st0 is bound to its value once per call ({.. : st \in {st0}}), *)
(* so that a call evaluates its argument a single time.                     *)
RECURSIVE VisitNeighbors_ignoring_obstacles(_, _, _, _, _)
VisitNeighbors_ignoring_obstacles(nbs, i, cur, st0, obs) ==
    CHOOSE result \in
      {IF i > Len(nbs) THEN st
       ELSE LET nb == nbs[i]
            IN  IF nb \in st.visited
                THEN VisitNeighbors_ignoring_obstacles(nbs, i + 1, cur, st, obs)
                ELSE VisitNeighbors_ignoring_obstacles(nbs, i + 1, cur,
                                    [q |-> Append(st.q, nb),
                                     visited |-> st.visited \cup {nb},
                                     parent |-> (nb :> cur) @@ st.parent],
                                    obs) : st \in {st0}} : TRUE

RECURSIVE VisitNeighbors_reversed(_, _, _, _, _)
VisitNeighbors_reversed(nbs, i, cur, st0, obs) ==
    CHOOSE result \in
      {IF i > Len(nbs) THEN st
       ELSE LET nb == nbs[Len(nbs) + 1 - i]
            IN  IF nb \in st.visited \/ nb \in obs
                THEN VisitNeighbors_reversed(nbs, i + 1, cur, st, obs)
                ELSE VisitNeighbors_reversed(nbs, i + 1, cur,
                                    [q |-> Append(st.q, nb),
                                     visited |-> st.visited \cup {nb},
                                     parent |-> (nb :> cur) @@ st.parent],
                                    obs) : st \in {st0}} : TRUE

RECURSIVE VisitNeighbors_skips_last(_, _, _, _, _)
VisitNeighbors_skips_last(nbs, i, cur, st0, obs) ==
    CHOOSE result \in
      {IF i >= Len(nbs) THEN st
       ELSE LET nb == nbs[i]
            IN  IF nb \in st.visited \/ nb \in obs
                THEN VisitNeighbors_skips_last(nbs, i + 1, cur, st, obs)
                ELSE VisitNeighbors_skips_last(nbs, i + 1, cur,
                                    [q |-> Append(st.q, nb),
                                     visited |-> st.visited \cup {nb},
                                     parent |-> (nb :> cur) @@ st.parent],
                                    obs) : st \in {st0}} : TRUE

RECURSIVE VisitNeighbors(_, _, _, _, _)
VisitNeighbors(nbs, i, cur, st0, obs) ==
    CHOOSE result \in
      {IF i > Len(nbs) THEN st
       ELSE LET nb == nbs[i]
            IN  IF nb \in st.visited \/ nb \in obs
                THEN VisitNeighbors(nbs, i + 1, cur, st, obs)
                ELSE VisitNeighbors(nbs, i + 1, cur,
                                    [q |-> Append(st.q, nb),
                                     visited |-> st.visited \cup {nb},
                                     parent |-> (nb :> cur) @@ st.parent],
                                    obs) : st \in {st0}} : TRUE

RECURSIVE BFSLoop_lifo(_, _, _)
BFSLoop_lifo(st0, start, obs) ==
    CHOOSE result \in
      {IF st.q = <<>> THEN <<>>
       ELSE LET cur == st.q[Len(st.q)]
            IN  IF is_edge(cur)
                THEN Reverse(ReconstructPath(<<cur>>, st.parent, start))
                ELSE BFSLoop_lifo(VisitNeighbors(neighbors(cur), 1, cur,
                                      [st EXCEPT !.q = SubSeq(st.q, 1, Len(st.q) - 1)],
                                      obs),
                                  start, obs) : st \in {st0}} : TRUE

RECURSIVE BFSLoop(_, _, _)
BFSLoop(st0, start, obs) ==
    CHOOSE result \in
      {IF st.q = <<>> THEN <<>>
       ELSE LET cur == Head(st.q)
            IN  IF is_edge(cur)
                THEN Reverse(ReconstructPath(<<cur>>, st.parent, start))
                ELSE BFSLoop(VisitNeighbors(neighbors(cur), 1, cur,
                                            [st EXCEPT !.q = Tail(st.q)], obs),
                             start, obs) : st \in {st0}} : TRUE

shortest_path_to_edge(frg, obs) ==
    IF is_edge(frg) THEN <<frg>>
    ELSE BFSLoop([q |-> <<frg>>, visited |-> {frg}, parent |-> <<>>], frg, obs)

(* ---- add_obstacle ------------------------------------------------------ *)
CanAdd_no_frog_check(cell, frg, obs) ==
    /\ in_bounds(cell)
    /\ cell \notin obs

CanAdd_no_duplicate_check(cell, frg, obs) ==
    /\ in_bounds(cell)
    /\ cell # frg

CanAdd(cell, frg, obs) ==
    /\ in_bounds(cell)
    /\ cell # frg
    /\ cell \notin obs

(* ---- the jump of step_after_click -------------------------------------- *)
(* The set holding next_cell, empty when next_cell is None.                *)
NextCell(p, start) ==
    LET nbset == SeqRange(neighbors(start))
        hits == {i \in 2 .. Len(p) : p[i] \in nbset}
    IN  IF p[2] \in nbset THEN {p[2]}
        ELSE IF hits = {} THEN {}
        ELSE {p[CHOOSE i \in hits : \A j \in hits : i <= j]}

FrogAfter_needs_three_cells(p, start) ==
    IF Len(p) > 2 /\ NextCell(p, start) # {}
    THEN CHOOSE x \in NextCell(p, start) : TRUE
    ELSE start

FrogAfter_jumps_to_end(p, start) ==
    IF Len(p) >= 2 THEN p[Len(p)] ELSE start

FrogAfter(p, start) ==
    IF Len(p) >= 2 /\ NextCell(p, start) # {}
    THEN CHOOSE x \in NextCell(p, start) : TRUE
    ELSE start

(* ---- request threads --------------------------------------------------- *)
(* The server handles each request in a thread of its own; api.py takes no *)
(* lock around GAME.  req[t] is what thread t holds: where it is in its    *)
(* handler (pc), the clicked cell, the path it computed (local `path` of   *)
(* step_after_click) and how many requests it may still make.              *)
Threads == {1, 2}

IdleRequest(n) == [pc |-> "idle", cell |-> <<0, 0>>, p |-> <<>>, left |-> n]

NoRequests == [t \in Threads |-> IdleRequest(MaxRequests)]

(* ---- state machine ----------------------------------------------------- *)
Configs ==
    {cf \in (1 .. MaxRows) \X (1 .. MaxCols) \X (0 .. MaxSpawn) \X (0 .. MaxSpawn) :
        cf[1] * cf[2] <= MaxCells /\ cf[3] <= cf[4]}

Init ==
    /\ \E cf \in Configs :
          /\ rows = cf[1]
          /\ cols = cf[2]
          /\ min_obstacles = cf[3]
          /\ max_obstacles = cf[4]
    /\ frog = Centre
    /\ status = "in_progress"
    /\ \E n \in min_obstacles .. max_obstacles :
          obstacles \in spawn_initial_obstacles(n, Centre)
    /\ op = "init"
    /\ added = FALSE
    /\ path = <<>>
    /\ moved_to = Centre
    /\ calls = 0
    /\ req = NoRequests

Reset_keeps_obstacles ==
    /\ frog' = Centre
    /\ status' = "in_progress"
    /\ \E n \in min_obstacles .. max_obstacles :
          \E o \in spawn_initial_obstacles(n, Centre) :
             obstacles' = (obstacles \ {Centre}) \cup o
    /\ op' = "reset"
    /\ added' = FALSE
    /\ path' = <<>>
    /\ moved_to' = Centre
    /\ calls' = 0
    /\ UNCHANGED <<config, req>>

Reset ==
    /\ frog' = Centre
    /\ status' = "in_progress"
    /\ \E n \in min_obstacles .. max_obstacles :
          obstacles' \in spawn_initial_obstacles(n, Centre)
    /\ op' = "reset"
    /\ added' = FALSE
    /\ path' = <<>>
    /\ moved_to' = Centre
    /\ calls' = 0
    /\ UNCHANGED <<config, req>>

AddObstacle(r, c) ==
    /\ added' = CanAdd(<<r, c>>, frog, obstacles)
    /\ obstacles' = IF CanAdd(<<r, c>>, frog, obstacles)
                    THEN obstacles \cup {<<r, c>>} ELSE obstacles
    /\ op' = "add_obstacle"
    /\ path' = <<>>
    /\ moved_to' = frog
    /\ UNCHANGED <<config, req, frog, status, calls>>

StepAfterClick_path_before_add(r, c) ==
    LET ok == CanAdd(<<r, c>>, frog, obstacles)
        obs1 == IF ok THEN obstacles \cup {<<r, c>>} ELSE obstacles
        p == shortest_path_to_edge(frog, obstacles)
        frog1 == FrogAfter(p, frog)
    IN  /\ added' = ok
        /\ obstacles' = obs1
        /\ op' = "step_after_click"
        /\ IF status # "in_progress"
           THEN /\ path' = <<>>
                /\ moved_to' = frog
                /\ UNCHANGED <<frog, status>>
           ELSE IF p = <<>>
           THEN /\ status' = "win"
                /\ path' = <<>>
                /\ moved_to' = frog
                /\ UNCHANGED frog
           ELSE /\ frog' = frog1
                /\ status' = IF is_edge(frog1) THEN "lose" ELSE status
                /\ path' = p
                /\ moved_to' = frog1
        /\ UNCHANGED <<config, req>>

StepAfterClick_edge_before_move(r, c) ==
    LET ok == CanAdd(<<r, c>>, frog, obstacles)
        obs1 == IF ok THEN obstacles \cup {<<r, c>>} ELSE obstacles
        p == shortest_path_to_edge(frog, obs1)
        frog1 == FrogAfter(p, frog)
    IN  /\ added' = ok
        /\ obstacles' = obs1
        /\ op' = "step_after_click"
        /\ IF status # "in_progress"
           THEN /\ path' = <<>>
                /\ moved_to' = frog
                /\ UNCHANGED <<frog, status>>
           ELSE IF p = <<>>
           THEN /\ status' = "win"
                /\ path' = <<>>
                /\ moved_to' = frog
                /\ UNCHANGED frog
           ELSE /\ frog' = frog1
                /\ status' = IF is_edge(frog) THEN "lose" ELSE status
                /\ path' = p
                /\ moved_to' = frog1
        /\ UNCHANGED <<config, req>>

StepAfterClick_short_path_wins(r, c) ==
    LET ok == CanAdd(<<r, c>>, frog, obstacles)
        obs1 == IF ok THEN obstacles \cup {<<r, c>>} ELSE obstacles
        p == shortest_path_to_edge(frog, obs1)
        frog1 == FrogAfter(p, frog)
    IN  /\ added' = ok
        /\ obstacles' = obs1
        /\ op' = "step_after_click"
        /\ IF status # "in_progress"
           THEN /\ path' = <<>>
                /\ moved_to' = frog
                /\ UNCHANGED <<frog, status>>
           ELSE IF Len(p) < 2
           THEN /\ status' = "win"
                /\ path' = <<>>
                /\ moved_to' = frog
                /\ UNCHANGED frog
           ELSE /\ frog' = frog1
                /\ status' = IF is_edge(frog1) THEN "lose" ELSE status
                /\ path' = p
                /\ moved_to' = frog1
        /\ UNCHANGED <<config, req>>

StepAfterClick_replays_terminal(r, c) ==
    LET ok == CanAdd(<<r, c>>, frog, obstacles)
        obs1 == IF ok THEN obstacles \cup {<<r, c>>} ELSE obstacles
        p == shortest_path_to_edge(frog, obs1)
        frog1 == FrogAfter(p, frog)
    IN  /\ added' = ok
        /\ obstacles' = obs1
        /\ op' = "step_after_click"
        /\ IF Len(p) < 2
           THEN /\ status' = "win"
                /\ path' = <<>>
                /\ moved_to' = frog
                /\ UNCHANGED frog
           ELSE /\ frog' = frog1
                /\ status' = IF is_edge(frog1) THEN "lose" ELSE status
                /\ path' = p
                /\ moved_to' = frog1
        /\ UNCHANGED <<config, req>>

StepAfterClick(r, c) ==
    LET ok == CanAdd(<<r, c>>, frog, obstacles)
        obs1 == IF ok THEN obstacles \cup {<<r, c>>} ELSE obstacles
        p == shortest_path_to_edge(frog, obs1)
        frog1 == FrogAfter(p, frog)
    IN  /\ added' = ok
        /\ obstacles' = obs1
        /\ op' = "step_after_click"
        /\ IF status # "in_progress"
           THEN /\ path' = <<>>
                /\ moved_to' = frog
                /\ UNCHANGED <<frog, status>>
           ELSE IF p = <<>>
           THEN /\ status' = "win"
                /\ path' = <<>>
                /\ moved_to' = frog
                /\ UNCHANGED frog
           ELSE /\ frog' = frog1
                /\ status' = IF is_edge(frog1) THEN "lose" ELSE status
                /\ path' = p
                /\ moved_to' = frog1
        /\ UNCHANGED <<config, req>>

(* Arguments of a call: every cell of the grid, and cells outside it on    *)
(* each side (negative row, negative column, row = rows, column = cols).   *)
OutOfBounds ==
    {<<-1, 0>>, <<0, -1>>, <<rows, 0>>, <<0, cols>>, <<-1, -1>>, <<rows, cols>>}

Clicks == Cells \cup OutOfBounds

(* One cell outside every grid of the model.                               *)
FarAway == <<99, 99>>

Step == \E cl \in Clicks : StepAfterClick(cl[1], cl[2]) /\ UNCHANGED calls

Add == \E cl \in Clicks : AddObstacle(cl[1], cl[2])

Next == Reset \/ Add \/ Step

Spec == Init /\ [][Next]_vars

(* ---- a game played to its end: clicks only, and they keep coming ------- *)
(* GameLogic(rows, cols, 0, MaxPlaySpawn): enough spawned obstacles for the *)
(* player to be able to enclose the frog.                                  *)
PlayInit ==
    /\ rows \in 1 .. MaxRows
    /\ cols \in 1 .. MaxCols
    /\ rows * cols <= MaxCells
    /\ min_obstacles = 0
    /\ max_obstacles = MaxPlaySpawn
    /\ frog = Centre
    /\ status = "in_progress"
    /\ \E n \in min_obstacles .. max_obstacles :
          obstacles \in spawn_initial_obstacles(n, Centre)
    /\ op = "init"
    /\ added = FALSE
    /\ path = <<>>
    /\ moved_to = Centre
    /\ calls = 0
    /\ req = NoRequests

PlayNext == Step

PlaySpec == PlayInit /\ [][PlayNext]_vars /\ WF_vars(PlayNext)

(* ---- requests in flight at once ---------------------------------------- *)
(* /click and /reset handled by two threads with no lock: each action is   *)
(* one stretch of a handler between two accesses to GAME, and the threads  *)
(* take their stretches in any order.                                      *)
(* What a finished call hands back; a thread keeps it to itself.           *)
returned == <<op, added, path, moved_to, calls>>

ConcClicks == Cells \cup {FarAway}

Goto(t, where) == req' = [req EXCEPT ![t].pc = where]

Return(t) == req' = [req EXCEPT ![t].pc = "idle", ![t].p = <<>>]

(* POST /click arrives: click() calls GAME.step_after_click(r, c).         *)
BeginClick(t) ==
    /\ req[t].pc = "idle"
    /\ req[t].left > 0
    /\ \E cl \in ConcClicks :
          req' = [req EXCEPT ![t].pc = "add_check", ![t].cell = cl,
                             ![t].left = @ - 1]
    /\ UNCHANGED <<frog, obstacles, status, config, returned>>

(* add_obstacle, the three tests.                                          *)
AddCheck(t) ==
    /\ req[t].pc = "add_check"
    /\ IF CanAdd(req[t].cell, frog, obstacles)
       THEN Goto(t, "add_insert")
       ELSE Goto(t, "status")
    /\ UNCHANGED <<frog, obstacles, status, config, returned>>

(* add_obstacle: self.obstacles.add(cell).                                 *)
AddInsert(t) ==
    /\ req[t].pc = "add_insert"
    /\ obstacles' = obstacles \cup {req[t].cell}
    /\ Goto(t, "status")
    /\ UNCHANGED <<frog, status, config, returned>>

(* if self.status != "in_progress": return                                 *)
ClickStatus(t) ==
    /\ req[t].pc = "status"
    /\ IF status # "in_progress" THEN Return(t) ELSE Goto(t, "path")
    /\ UNCHANGED <<frog, obstacles, status, config, returned>>

(* path = self.shortest_path_to_edge(); win and return when it is empty.   *)
ClickPath(t) ==
    /\ req[t].pc = "path"
    /\ LET p == shortest_path_to_edge(frog, obstacles)
       IN  IF p = <<>>
           THEN status' = "win" /\ Return(t)
           ELSE /\ req' = [req EXCEPT ![t].pc = "move", ![t].p = p]
                /\ UNCHANGED status
    /\ UNCHANGED <<frog, obstacles, config, returned>>

(* The jump: start = self.frog ... self.frog = next_cell.                  *)
ClickMove(t) ==
    /\ req[t].pc = "move"
    /\ frog' = FrogAfter(req[t].p, frog)
    /\ Goto(t, "edge")
    /\ UNCHANGED <<obstacles, status, config, returned>>

(* if self.is_edge(self.frog): self.status = "lose"; return                *)
ClickEdge(t) ==
    /\ req[t].pc = "edge"
    /\ status' = IF is_edge(frog) THEN "lose" ELSE status
    /\ Return(t)
    /\ UNCHANGED <<frog, obstacles, config, returned>>

(* POST /reset arrives: reset() calls GAME.reset().                        *)
BeginReset(t) ==
    /\ req[t].pc = "idle"
    /\ req[t].left > 0
    /\ req' = [req EXCEPT ![t].pc = "reset_frog", ![t].left = @ - 1]
    /\ UNCHANGED <<frog, obstacles, status, config, returned>>

ResetFrog(t) ==
    /\ req[t].pc = "reset_frog"
    /\ frog' = Centre
    /\ Goto(t, "reset_clear")
    /\ UNCHANGED <<obstacles, status, config, returned>>

ResetClear(t) ==
    /\ req[t].pc = "reset_clear"
    /\ obstacles' = {}
    /\ Goto(t, "reset_status")
    /\ UNCHANGED <<frog, status, config, returned>>

ResetStatus(t) ==
    /\ req[t].pc = "reset_status"
    /\ status' = "in_progress"
    /\ Goto(t, "reset_spawn")
    /\ UNCHANGED <<frog, obstacles, config, returned>>

ResetSpawn(t) ==
    /\ req[t].pc = "reset_spawn"
    /\ \E n \in min_obstacles .. max_obstacles :
          obstacles' \in spawn_initial_obstacles(n, frog)
    /\ Return(t)
    /\ UNCHANGED <<frog, status, config, returned>>

ConcNext ==
    \/ \E t \in Threads : BeginClick(t)
    \/ \E t \in Threads : AddCheck(t)
    \/ \E t \in Threads : AddInsert(t)
    \/ \E t \in Threads : ClickStatus(t)
    \/ \E t \in Threads : ClickPath(t)
    \/ \E t \in Threads : ClickMove(t)
    \/ \E t \in Threads : ClickEdge(t)
    \/ \E t \in Threads : BeginReset(t)
    \/ \E t \in Threads : ResetFrog(t)
    \/ \E t \in Threads : ResetClear(t)
    \/ \E t \in Threads : ResetStatus(t)
    \/ \E t \in Threads : ResetSpawn(t)

ConcSpec == Init /\ [][ConcNext]_vars

(* ---- the player never places an obstacle ------------------------------- *)
(* GameLogic(rows, cols, 0, 0) followed by step_after_click calls whose    *)
(* cell is outside the grid; calls counts them.                            *)
LoseInit ==
    /\ rows \in 1 .. MaxLoseRows
    /\ cols \in 1 .. MaxLoseCols
    /\ min_obstacles = 0
    /\ max_obstacles = 0
    /\ frog = Centre
    /\ status = "in_progress"
    /\ \E n \in min_obstacles .. max_obstacles :
          obstacles \in spawn_initial_obstacles(n, Centre)
    /\ op = "init"
    /\ added = FALSE
    /\ path = <<>>
    /\ moved_to = Centre
    /\ calls = 0
    /\ req = NoRequests

StepOutside ==
    /\ calls < rows * cols
    /\ \E cl \in OutOfBounds \cup {FarAway} : StepAfterClick(cl[1], cl[2])
    /\ calls' = calls + 1

LoseNext == StepOutside

LoseSpec == LoseInit /\ [][LoseNext]_vars

(* ---- shortest_path_to_edge called on its own ---------------------------- *)
(* An engine with the frog on any free cell and up to MaxPathObstacles     *)
(* obstacles, on which shortest_path_to_edge() is called.                  *)
RECURSIVE ObstacleSets(_)
ObstacleSets(k) ==
    IF k = 0 THEN {{}}
    ELSE LET fewer == ObstacleSets(k - 1)
         IN  fewer \cup {o \cup {cell} : o \in fewer, cell \in Cells}

PathInit ==
    /\ rows \in 1 .. MaxPathRows
    /\ cols \in 1 .. MaxPathCols
    /\ min_obstacles = 0
    /\ max_obstacles = MaxPathObstacles
    /\ frog \in Cells
    /\ obstacles \in {o \in ObstacleSets(MaxPathObstacles) : frog \notin o}
    /\ status = IF is_edge(frog) /\ frog # Centre THEN "lose" ELSE "in_progress"
    /\ op = "init"
    /\ added = FALSE
    /\ path = <<>>
    /\ moved_to = frog
    /\ calls = 0
    /\ req = NoRequests

ShortestPathToEdge ==
    /\ path' = shortest_path_to_edge(frog, obstacles)
    /\ op' = "shortest_path_to_edge"
    /\ UNCHANGED <<config, req, frog, obstacles, status, added, moved_to, calls>>

PathNext == ShortestPathToEdge

PathSpec == PathInit /\ [][PathNext]_vars

(* ---- reference notions used by the properties -------------------------- *)
Terminal == status \in {"win", "lose"}

NbSet(cell) == SeqRange(neighbors(cell))

(* Least number of hops from frg to an edge cell through cells outside     *)
(* obs, by growing the set of cells within k hops; -1 when there is none.  *)
RECURSIVE HopsToEdge(_, _, _)
HopsToEdge(within, k, obs) ==
    IF \E cell \in within : is_edge(cell) THEN k
    ELSE LET more == within \cup
                        {nb \in Cells \ obs : \E cell \in within : nb \in NbSet(cell)}
         IN  IF more = within THEN -1 ELSE HopsToEdge(more, k + 1, obs)

Dist(frg, obs) == HopsToEdge({frg}, 0, obs)

(* ---- C1 ----------------------------------------------------------------- *)
(* C1: a step_after_click call made while status is win or lose leaves the *)
(* frog, the obstacle set and the status unchanged.                        *)
C1_TerminalFreeze ==
    [][(Terminal /\ op' = "step_after_click")
         => (frog' = frog /\ obstacles' = obstacles /\ status' = status)]_vars

(* ---- C2 ----------------------------------------------------------------- *)
(* C2: in every reachable state the frog cell is not in the obstacle set.  *)
C2_FrogNotObstacle == frog \notin obstacles

(* A step placed an obstacle and moved the frog off the centre, game on.   *)
C2_Witness ==
    /\ op = "step_after_click"
    /\ added
    /\ frog # Centre
    /\ status = "in_progress"

(* ---- C3 ----------------------------------------------------------------- *)
(* C3: in every reachable state the frog cell and every obstacle cell lie  *)
(* in [0, rows) x [0, cols).                                               *)
C3_InBounds ==
    /\ frog[1] \in 0 .. rows - 1
    /\ frog[2] \in 0 .. cols - 1
    /\ \A o \in obstacles : o[1] \in 0 .. rows - 1 /\ o[2] \in 0 .. cols - 1

(* A step whose placement was refused moved the frog on a grid that holds  *)
(* obstacles.                                                              *)
C3_Witness ==
    /\ op = "step_after_click"
    /\ ~added
    /\ frog # Centre
    /\ obstacles # {}

(* ---- C4 ----------------------------------------------------------------- *)
(* C4: a non-empty path returned by shortest_path_to_edge starts at the    *)
(* frog, ends on an edge cell, links hex-adjacent cells and holds no       *)
(* obstacle.                                                               *)
C4_PathValid ==
    LET p == shortest_path_to_edge(frog, obstacles)
    IN  p # <<>> =>
          /\ p[1] = frog
          /\ is_edge(p[Len(p)])
          /\ \A i \in 1 .. Len(p) - 1 : p[i + 1] \in NbSet(p[i])
          /\ \A i \in 1 .. Len(p) : p[i] \notin obstacles

(* The frog's path has two hops and the grid holds obstacles.              *)
C4_Witness ==
    /\ Len(shortest_path_to_edge(frog, obstacles)) = 3
    /\ obstacles # {}
    /\ status = "in_progress"

(* ---- C5 ----------------------------------------------------------------- *)
(* C5: the hops of the returned path number the least distance from the    *)
(* frog to an edge cell through non-obstacle cells, and the path is empty  *)
(* exactly when no edge cell can be reached.                               *)
C5_PathMinimal ==
    LET p == shortest_path_to_edge(frog, obstacles)
        d == Dist(frog, obstacles)
    IN  /\ (p = <<>>) <=> (d = -1)
        /\ p # <<>> => Len(p) - 1 = d

(* The frog made one hop of a two-hop path and was then enclosed.          *)
C5_Witness ==
    /\ status = "win"
    /\ frog # Centre
    /\ shortest_path_to_edge(frog, obstacles) = <<>>

(* ---- C6 ----------------------------------------------------------------- *)
(* C6: a step taken in status in_progress after whose placement no edge    *)
(* cell can be reached from the frog sets status to win, returns the empty *)
(* path and leaves the frog where it was (moved_to is the old frog cell).  *)
C6_WinTransition ==
    [][(op' = "step_after_click" /\ status = "in_progress"
          /\ Dist(frog, obstacles') = -1)
         => (status' = "win" /\ path' = <<>> /\ frog' = frog /\ moved_to' = frog)]_vars

(* The placement of the last step closed the enclosure.                    *)
C6_Witness ==
    /\ op = "step_after_click"
    /\ status = "win"
    /\ added
    /\ path = <<>>
    /\ moved_to = frog

(* ---- C7 ----------------------------------------------------------------- *)
(* C7: on a grid without obstacles, with only out-of-bounds clicks, every  *)
(* call returns added = false, every call made while the frog is off the   *)
(* edge brings it exactly one hop nearer to the edge, and after at most    *)
(* rows * cols calls the status is lose with the frog on an edge cell.     *)
C7_LoseByInaction ==
    /\ [][op' = "step_after_click"
            => /\ added' = FALSE
               /\ (status = "in_progress" /\ ~is_edge(frog))
                    => /\ frog' \in NbSet(frog)
                       /\ Dist(frog', obstacles') = Dist(frog, obstacles) - 1]_vars
    /\ [](status = "in_progress" => calls < rows * cols)
    /\ [](calls >= rows * cols => (status = "lose" /\ is_edge(frog)))
    /\ [](status = "lose" => is_edge(frog))

(* The 11 x 11 game of the frog at (5, 5): lost on the fifth call.         *)
C7_Witness ==
    /\ rows = 11 /\ cols = 11
    /\ obstacles = {}
    /\ op = "step_after_click"
    /\ calls = 5
    /\ status = "lose"
    /\ is_edge(frog)

(* ---- C8 ----------------------------------------------------------------- *)
(* C8: right after construction or reset the obstacle set has between      *)
(* min_obstacles and max_obstacles cells, fewer than min_obstacles only on *)
(* a grid with fewer than min_obstacles cells other than the frog's.       *)
C8_ObstacleCountBound ==
    op \in {"init", "reset"} =>
       /\ Cardinality(obstacles) <= max_obstacles
       /\ \/ Cardinality(obstacles) >= min_obstacles
          \/ Cardinality(Cells \ {frog}) < min_obstacles

(* ---- C9 ----------------------------------------------------------------- *)
(* C9: add_obstacle(r, c) returns false and changes nothing when (r, c) is *)
(* outside the grid, the frog cell or an obstacle; otherwise it returns    *)
(* true and adds exactly (r, c); frog and status stay in both cases.       *)
C9_AddObstacle ==
    [][op' = "add_obstacle" => \A cl \in Clicks :
          AddObstacle(cl[1], cl[2]) =>
             /\ frog' = frog
             /\ status' = status
             /\ IF \/ cl[1] < 0 \/ cl[1] >= rows \/ cl[2] < 0 \/ cl[2] >= cols
                   \/ cl = frog
                   \/ cl \in obstacles
                THEN added' = FALSE /\ obstacles' = obstacles
                ELSE added' = TRUE /\ obstacles' = obstacles \cup {cl}
                       /\ obstacles' # obstacles]_vars

(* add_obstacle was refused on a grid that holds obstacles, after the frog *)
(* has moved.                                                              *)
C9_Witness ==
    /\ op = "add_obstacle"
    /\ ~added
    /\ obstacles # {}
    /\ frog # Centre

(* ---- C10 ---------------------------------------------------------------- *)
(* C10: the state right after reset, whatever came before, has the frog at *)
(* (rows // 2, cols // 2), status in_progress and an obstacle set the      *)
(* spawner builds from the empty set: at most max_obstacles cells of the   *)
(* grid, none of them the frog's.                                          *)
C10_Reset ==
    op = "reset" =>
       /\ frog = <<rows \div 2, cols \div 2>>
       /\ status = "in_progress"
       /\ obstacles \subseteq Cells \ {frog}
       /\ Cardinality(obstacles) <= max_obstacles

(* A reset that spawned as many obstacles as it may.                       *)
C10_Witness ==
    /\ op = "reset"
    /\ max_obstacles > 0
    /\ Cardinality(obstacles) = max_obstacles

(* ---- C11 ---------------------------------------------------------------- *)
(* The cells outside obs by their number of hops to an edge cell:          *)
(* layers[k] holds the cells at k hops.                                    *)
RECURSIVE HopLayers(_, _, _)
HopLayers(layers, seen, obs) ==
    LET last == layers[Len(layers)]
        next == {cell \in (Cells \ obs) \ seen : NbSet(cell) \cap last # {}}
    IN  IF next = {} THEN layers
        ELSE HopLayers(Append(layers, next), seen \cup next, obs)

EdgeLayers(obs) ==
    LET edge == {cell \in Cells \ obs : is_edge(cell)}
    IN  HopLayers(<<edge>>, edge, obs)

(* From a cell at k hops (in layers[k + 1]) to the edge, taking at every   *)
(* cell the first neighbour, in the order of neighbors(), one hop nearer.  *)
RECURSIVE FirstDescent(_, _, _)
FirstDescent(cell, k, layers) ==
    IF k = 0 THEN <<cell>>
    ELSE LET nbs == neighbors(cell)
             i0 == CHOOSE i \in 1 .. Len(nbs) :
                      /\ nbs[i] \in layers[k]
                      /\ \A j \in 1 .. i - 1 : nbs[j] \notin layers[k]
         IN  <<cell>> \o FirstDescent(nbs[i0], k - 1, layers)

FirstShortestPath(frg, obs) ==
    LET layers == EdgeLayers(obs \ {frg})
        at == {k \in 1 .. Len(layers) : frg \in layers[k]}
    IN  IF at = {} THEN <<>>
        ELSE FirstDescent(frg, (CHOOSE k \in at : TRUE) - 1, layers)

(* C11: the path shortest_path_to_edge returns is a function of rows,      *)
(* cols, frog and obstacle set alone: among the shortest paths it is the   *)
(* one that takes the first neighbour in offset order at every cell, which *)
(* is where FIFO order breaks the ties; the call changes no engine state.  *)
C11_Deterministic ==
    /\ [](op = "shortest_path_to_edge" => path = FirstShortestPath(frog, obstacles))
    /\ [][op' = "shortest_path_to_edge"
            => UNCHANGED <<rows, cols, frog, obstacles, status>>]_vars

(* A call on a 5 x 5 grid whose two obstacles turn the path away from the  *)
(* one it takes on the empty grid.                                         *)
C11_Witness ==
    /\ op = "shortest_path_to_edge"
    /\ rows = 5 /\ cols = 5
    /\ Len(path) = 3
    /\ Cardinality(obstacles) = 2
    /\ path # FirstShortestPath(frog, {})

(* ---- C12 ---------------------------------------------------------------- *)
(* C12: with two requests in flight at once, no interleaving of their      *)
(* step_after_click / reset executions puts the frog on an obstacle.       *)
(* Violated: a click computes its path, another click places an obstacle   *)
(* on the path's next cell, and the first click then jumps onto it.        *)
C12_NoInterleavingHarm == obstacles \cap {frog} = {}

(* ---- C13 ---------------------------------------------------------------- *)
(* C13: when a step taken in status in_progress computes a path of two or  *)
(* more cells, the second cell is a hex neighbour of the frog and the frog *)
(* moves exactly there, whether or not the obstacle was placed.            *)
C13_OneGreedyStep ==
    [][(op' = "step_after_click" /\ status = "in_progress" /\ Len(path') >= 2)
         => /\ path'[1] = frog
            /\ path'[2] \in NbSet(frog)
            /\ frog' = path'[2]
            /\ moved_to' = path'[2]]_vars

(* A step whose placement was refused moved the frog along a path that     *)
(* goes on after the cell the frog jumped to.                              *)
C13_Witness ==
    /\ op = "step_after_click"
    /\ ~added
    /\ Len(path) = 3
    /\ frog = path[2]
    /\ obstacles # {}

(* ---- C14 ---------------------------------------------------------------- *)
(* C14: on a grid of at least 3 rows and 3 columns, status is lose exactly *)
(* when the frog is on an edge cell.                                       *)
C14_LoseIffEdge ==
    (rows >= 3 /\ cols >= 3) =>
       ((status = "lose") <=>
           (frog[1] = 0 \/ frog[1] = rows - 1 \/ frog[2] = 0 \/ frog[2] = cols - 1))

(* The frog reached the edge on its second jump.                           *)
C14_Witness ==
    /\ rows >= 3 /\ cols >= 3
    /\ op = "step_after_click"
    /\ status = "lose"
    /\ Len(path) = 2
    /\ path[1] # Centre

(* ---- C15 ---------------------------------------------------------------- *)
(* C15: in every state with status win no edge cell can be reached from    *)
(* the frog through non-obstacle cells and shortest_path_to_edge returns   *)
(* the empty path, also after further add_obstacle and step calls.         *)
C15_WinMeansEnclosed ==
    status = "win" =>
       /\ Dist(frog, obstacles) = -1
       /\ shortest_path_to_edge(frog, obstacles) = <<>>

(* An obstacle was placed by add_obstacle after the game was won.          *)
C15_Witness ==
    /\ status = "win"
    /\ op = "add_obstacle"
    /\ added

(* ---- C16 ---------------------------------------------------------------- *)
(* C16: with the frog on an edge cell shortest_path_to_edge returns the    *)
(* one-cell path of the frog, whatever the obstacles, and a step taken in  *)
(* status in_progress sets status to lose, leaves the frog and returns     *)
(* that path.                                                              *)
C16_FrogOnEdge ==
    /\ [](is_edge(frog) => shortest_path_to_edge(frog, obstacles) = <<frog>>)
    /\ [][(op' = "step_after_click" /\ status = "in_progress" /\ is_edge(frog))
            => /\ status' = "lose"
               /\ frog' = frog
               /\ path' = <<frog>>
               /\ moved_to' = frog]_vars

(* The frog lost on the cell it was built on, all its neighbours being     *)
(* obstacles.                                                              *)
C16_Witness ==
    /\ op = "step_after_click"
    /\ status = "lose"
    /\ frog = Centre
    /\ path = <<frog>>
    /\ NbSet(frog) # {}
    /\ NbSet(frog) \subseteq obstacles

(* ---- C18 ---------------------------------------------------------------- *)
(* C18: from a state with status win or lose, step_after_click and         *)
(* add_obstacle leave status and frog as they are; only reset changes      *)
(* them.                                                                   *)
C18_StatusAbsorbing ==
    [][Terminal => (op' = "reset" \/ (status' = status /\ frog' = frog))]_vars

(* A step taken after the game was lost placed an obstacle.                *)
C18_Witness ==
    /\ op = "step_after_click"
    /\ status = "lose"
    /\ path = <<>>
    /\ added

(* ---- C20 ---------------------------------------------------------------- *)
(* C20: step_after_click(r, c) removes no obstacle, adds at most the cell  *)
(* (r, c), and adds it exactly when it returns added = true.               *)
C20_ObstaclesGrow ==
    [][op' = "step_after_click" => \A cl \in Clicks :
          \/ /\ obstacles \subseteq obstacles'
             /\ obstacles' \ obstacles \subseteq {cl}
             /\ added' <=> (cl \in obstacles' \ obstacles)
          \/ ~StepAfterClick(cl[1], cl[2])]_vars

(* A step placed an obstacle next to others and the game goes on.          *)
C20_Witness ==
    /\ op = "step_after_click"
    /\ added
    /\ status = "in_progress"
    /\ Cardinality(obstacles) >= 3

(* ---- C17 ---------------------------------------------------------------- *)
(* C17, as stated: every call made while the status is in_progress (and    *)
(* the frog is off the edge) places an obstacle or brings the frog         *)
(* strictly nearer to the nearest edge.  Violated when the spawn has       *)
(* enclosed the frog and the click places nothing: the call ends the game  *)
(* with win, no obstacle is added and no edge is reachable before or after.*)
C17_EachCallAddsOrNears ==
    [][(op' = "step_after_click" /\ status = "in_progress" /\ ~is_edge(frog))
         => (added' \/ (/\ Dist(frog', obstacles') >= 0
                        /\ Dist(frog', obstacles') < Dist(frog, obstacles)))]_vars

(* C17, amended: when step_after_click calls keep coming and there is no   *)
(* reset, the status becomes win or lose; a call that leaves the status    *)
(* in_progress has placed an obstacle or brought the frog nearer to the    *)
(* edge.                                                                   *)
C17_EveryGameEnds ==
    /\ <>Terminal
    /\ [][(op' = "step_after_click" /\ status = "in_progress"
              /\ status' = "in_progress")
            => (added' \/ Dist(frog', obstacles') < Dist(frog, obstacles))]_vars

(* A game the player won after the frog had moved.                         *)
C17_Witness ==
    /\ op = "step_after_click"
    /\ status = "win"
    /\ frog # Centre
    /\ moved_to = frog

(* ---- C19 ---------------------------------------------------------------- *)
(* C19: on every grid, b is a neighbour of a exactly when a is a neighbour *)
(* of b, no cell is its own neighbour, and neighbors(a) lists at most 6    *)
(* cells of the grid, each once.                                           *)
C19_HexAdjacency ==
    \A a \in Cells :
       /\ \A b \in NbSet(a) : b \in Cells /\ a \in NbSet(b)
       /\ a \notin NbSet(a)
       /\ Len(neighbors(a)) <= 6
       /\ Cardinality(NbSet(a)) = Len(neighbors(a))

(* The frog jumped on the 11 x 11 grid from a cell with 6 neighbours, in   *)
(* an odd row, to one in an even row.                                      *)
C19_Witness ==
    /\ rows = 11 /\ cols = 11
    /\ op = "step_after_click"
    /\ Len(path) >= 2
    /\ Cardinality(NbSet(path[1])) = 6
    /\ path[1][1] % 2 = 1
    /\ frog[1] % 2 = 0
    /\ Cardinality(NbSet(frog)) = 6

====
